---- MODULE Spec2Model ----
(***************************************************************************)
(* Model of the Maschine Mikro MK1 input-report decoder                    *)
(* (src/src/devices/ni/MaschineMikroMK1.cpp / .h).                         *)
(*                                                                         *)
(* A report (cabl Transfer) is a sequence of bytes 0..255; C++ index i is  *)
(* TLA+ index i+1.  The device state is the six data members of the class. *)
(* The three callbacks of the enclosing Device (buttonChanged,             *)
(* encoderChanged, keyChanged) are recorded, in call order, in `emitted`.  *)
(***************************************************************************)
EXTENDS Integers, Sequences, FiniteSets, TLC

VARIABLES
  m_padValues,          \* std::array<unsigned, kNumPads>
  m_padDown,            \* std::bitset<kNumPads>
  m_buttonDown,         \* std::bitset<kNumButtonBits>
  m_buttonsActiveLow,   \* int: -1 unknown, 0 active-high, 1 active-low
  m_encoderInitialized, \* bool
  m_encoderValue,       \* uint8_t
  op,                   \* the member function that ran last: "init" or "tick"
  input,                \* the Transfer handed to the last read()
  ret,                  \* the value returned by the last tick()
  handleOk,             \* what readFromDeviceHandle returned in the last tick()
  calls,                \* the decoders processReport invoked in the last tick()
  emitted,              \* the callbacks fired by the last call, in order
  tracing,              \* whether the calls since init() are being recorded
  trace                 \* the recorded ticks since init(): <<[in, out, ret]>>

vars == <<m_padValues, m_padDown, m_buttonDown, m_buttonsActiveLow,
          m_encoderInitialized, m_encoderValue, op, input, ret, handleOk,
          calls, emitted, tracing, trace>>

(***************************************************************************)
(* Program constants and tables                                            *)
(***************************************************************************)
kPadThreshold == 200
kNumPads == 16
kNumButtonBits == 32

kRawPadToLogical == <<12, 13, 14, 15, 8, 9, 10, 11, 4, 5, 6, 7, 0, 1, 2, 3>>

\* kButtonByBankBit[bank][bit].id ; TLA+ sequences are 1-based.
kButtonByBankBit ==
  << <<"Unknown", "Unknown", "Unknown", "Unknown",
       "Unknown", "Unknown", "Unknown", "Unknown">>,
     <<"Mute", "Solo", "Select", "Duplicate",
       "View", "PadMode", "Pattern", "Scene">>,
     <<"Enter", "NavigateRight", "NavigateLeft", "Nav",
       "Main", "F3", "F2", "F1">>,
     <<"Unknown", "Unknown", "Unknown", "MainEncoder",
       "NoteRepeat", "Group", "Sampling", "Browse">>,
     <<"Shift", "Erase", "Rec", "Play",
       "Grid", "TransportRight", "TransportLeft", "Restart">> >>

ButtonId(bank, bit) == kButtonByBankBit[bank + 1][bit + 1]

(***************************************************************************)
(* Byte arithmetic                                                         *)
(***************************************************************************)
Pow2(n) == IF n = 0 THEN 1 ELSE IF n = 1 THEN 2 ELSE IF n = 2 THEN 4
           ELSE IF n = 3 THEN 8 ELSE IF n = 4 THEN 16 ELSE IF n = 5 THEN 32
           ELSE IF n = 6 THEN 64 ELSE IF n = 7 THEN 128 ELSE 256

\* ((b >> bit) & 0x01) != 0
BitIsOne(b, bit) == ((b \div Pow2(bit)) % 2) = 1

\* __builtin_popcount of a byte
Popcount(b) == LET One(k) == IF BitIsOne(b, k) THEN 1 ELSE 0
               IN One(0) + One(1) + One(2) + One(3)
                  + One(4) + One(5) + One(6) + One(7)

\* input_[i] with the C++ (0-based) index
At(r, i) == r[i + 1]

(***************************************************************************)
(* The callbacks of the enclosing Device                                   *)
(***************************************************************************)
buttonChanged(id, pressed, shift) ==
  [type |-> "button", id |-> id, pressed |-> pressed, shift |-> shift]

encoderChanged(index, increased, shift) ==
  [type |-> "encoder", index |-> index, increased |-> increased, shift |-> shift]

\* keyChanged(pad, value / 1024.0, false): the double value is kept exactly,
\* as its numerator over kValueDivisor (a division by a power of two of an
\* integer below 2^12 is exact in binary floating point).
kValueDivisor == 1024
keyChanged(pad, numerator, shift) ==
  [type |-> "key", pad |-> pad, value |-> numerator, shift |-> shift]

(***************************************************************************)
(* The device state as one record, for the decoders                        *)
(***************************************************************************)
State ==
  [m_padValues |-> m_padValues, m_padDown |-> m_padDown,
   m_buttonDown |-> m_buttonDown, m_buttonsActiveLow |-> m_buttonsActiveLow,
   m_encoderInitialized |-> m_encoderInitialized,
   m_encoderValue |-> m_encoderValue,
   calls |-> <<>>, emitted |-> <<>>]

\* init(): every member back to its initial value
initState ==
  [m_padValues |-> [p \in 0..(kNumPads - 1) |-> 0],
   m_padDown |-> [p \in 0..(kNumPads - 1) |-> FALSE],
   m_buttonDown |-> [i \in 0..(kNumButtonBits - 1) |-> FALSE],
   m_buttonsActiveLow |-> -1,
   m_encoderInitialized |-> FALSE,
   m_encoderValue |-> 0,
   calls |-> <<>>, emitted |-> <<>>]

(***************************************************************************)
(* processButtonsReport                                                    *)
(***************************************************************************)
\* The heuristic of the first report: 1 (active-low) or 0 (active-high).
\* The loop runs over payload bytes 0 .. nPayloadBytes-2, report bytes
\* 1 .. nPayloadBytes-1: every payload byte but the last (encoder) one.
RECURSIVE SumOnes(_, _)
SumOnes(r, n) == IF n = 0 THEN 0 ELSE SumOnes(r, n - 1) + Popcount(At(r, n))

\* DetectActiveLow with an exact tie resolved to active-low
DetectActiveLowTieLow(r) ==
  LET nPayloadBytes == Len(r) - 1
      examined == 1..(nPayloadBytes - 1)
      allZero == \A i \in examined : At(r, i) = 0
      allFF == \A i \in examined : At(r, i) = 255
      ones == SumOnes(r, nPayloadBytes - 1)
      totalBits == (nPayloadBytes - 1) * 8
  IN IF allFF THEN 1
     ELSE IF allZero THEN 0
     ELSE IF ones >= (totalBits \div 2) THEN 1 ELSE 0

DetectActiveLow(r) ==
  LET nPayloadBytes == Len(r) - 1
      examined == 1..(nPayloadBytes - 1)
      allZero == \A i \in examined : At(r, i) = 0
      allFF == \A i \in examined : At(r, i) = 255
      ones == SumOnes(r, nPayloadBytes - 1)
      totalBits == (nPayloadBytes - 1) * 8
  IN IF allFF THEN 1
     ELSE IF allZero THEN 0
     ELSE IF ones > (totalBits \div 2) THEN 1 ELSE 0

\* ActiveLowAfter with the heuristic run on every report
ActiveLowRedetected(activeLow, r) == DetectActiveLow(r)

\* if (m_buttonsActiveLow < 0) { ... }
ActiveLowAfter(activeLow, r) ==
  IF activeLow < 0 THEN DetectActiveLow(r) ELSE activeLow

\* pressed = (m_buttonsActiveLow > 0) ? (!bitIsOne) : bitIsOne
Pressed(activeLow, bitIsOne) == IF activeLow > 0 THEN ~bitIsOne ELSE bitIsOne

\* The new "down" set built from the four bitfield bytes
NewDown(r, activeLow) ==
  [buttonIndex \in 0..(kNumButtonBits - 1) |->
     Pressed(activeLow,
             BitIsOne(At(r, 1 + (buttonIndex \div 8)), buttonIndex % 8))]

\* Increased without the two wrap rules
IncreasedNoWrap(encoderValue, current) == encoderValue < current

\* Increased without the exclusion of the move from 0 to 15
IncreasedNoExclusion(encoderValue, current) ==
  \/ encoderValue < current
  \/ (encoderValue = 15 /\ current = 0)

\* The direction of an encoder move from the stored to the current position
Increased(encoderValue, current) ==
  /\ \/ encoderValue < current
     \/ (encoderValue = 15 /\ current = 0)
  /\ ~(encoderValue = 0 /\ current = 15)

\* EncoderBlock with the stored position left at the baseline after a move
EncoderBlockStale(st, r, shiftPressed) ==
  LET nPayloadBytes == Len(r) - 1
      raw == At(r, 1 + (nPayloadBytes - 1))
      current == raw % 16
  IN IF ~st.m_encoderInitialized
       THEN [st EXCEPT !.m_encoderInitialized = TRUE,
                       !.m_encoderValue = current]
     ELSE IF current # st.m_encoderValue
       THEN [st EXCEPT
               !.emitted = Append(@, encoderChanged(0,
                              Increased(st.m_encoderValue, current),
                              shiftPressed))]
     ELSE st

\* EncoderBlock with the whole encoder byte taken as the position
EncoderBlockRawByte(st, r, shiftPressed) ==
  LET nPayloadBytes == Len(r) - 1
      raw == At(r, 1 + (nPayloadBytes - 1))
      current == raw
  IN IF ~st.m_encoderInitialized
       THEN [st EXCEPT !.m_encoderInitialized = TRUE,
                       !.m_encoderValue = current]
     ELSE IF current # st.m_encoderValue
       THEN [st EXCEPT
               !.emitted = Append(@, encoderChanged(0,
                              Increased(st.m_encoderValue, current),
                              shiftPressed)),
               !.m_encoderValue = current]
     ELSE st

\* The encoder block: the state after it, with the event it fired appended
EncoderBlock(st, r, shiftPressed) ==
  LET nPayloadBytes == Len(r) - 1
      raw == At(r, 1 + (nPayloadBytes - 1))
      current == raw % 16
  IN IF ~st.m_encoderInitialized
       THEN [st EXCEPT !.m_encoderInitialized = TRUE,
                       !.m_encoderValue = current]
     ELSE IF current # st.m_encoderValue
       THEN [st EXCEPT
               !.emitted = Append(@, encoderChanged(0,
                              Increased(st.m_encoderValue, current),
                              shiftPressed)),
               !.m_encoderValue = current]
     ELSE st

\* ButtonEdge with the banks in byte order (byte 0 -> bank 1)
ButtonEdgeBankAscending(oldDown, newDown, buttonIndex, shiftPressed) ==
  IF newDown[buttonIndex] = oldDown[buttonIndex] THEN <<>>
  ELSE LET payloadByteIndex == buttonIndex \div 8
           bitIndex == buttonIndex % 8
           bank == 1 + payloadByteIndex
           id == ButtonId(bank, bitIndex)
           pressed == newDown[buttonIndex]
       IN IF id # "Unknown"
            THEN << buttonChanged(id, pressed, shiftPressed) >>
            ELSE <<>>

\* The event, if any, the edge loop fires for one buttonIndex
ButtonEdge(oldDown, newDown, buttonIndex, shiftPressed) ==
  IF newDown[buttonIndex] = oldDown[buttonIndex] THEN <<>>
  ELSE LET payloadByteIndex == buttonIndex \div 8
           bitIndex == buttonIndex % 8
           bank == 4 - payloadByteIndex
           id == ButtonId(bank, bitIndex)
           pressed == newDown[buttonIndex]
       IN IF id # "Unknown"
            THEN << buttonChanged(id, pressed, shiftPressed) >>
            ELSE <<>>

\* ButtonEdges with the loop running from the last buttonIndex down
RECURSIVE ButtonEdgesDescending(_, _, _, _)
ButtonEdgesDescending(oldDown, newDown, from, shiftPressed) ==
  IF from >= kNumButtonBits THEN <<>>
  ELSE ButtonEdgesDescending(oldDown, newDown, from + 1, shiftPressed)
       \o ButtonEdge(oldDown, newDown, from, shiftPressed)

\* The edge loop over buttonIndex = from .. kNumButtonBits-1, ascending
RECURSIVE ButtonEdges(_, _, _, _)
ButtonEdges(oldDown, newDown, from, shiftPressed) ==
  IF from >= kNumButtonBits THEN <<>>
  ELSE ButtonEdge(oldDown, newDown, from, shiftPressed)
       \o ButtonEdges(oldDown, newDown, from + 1, shiftPressed)

\* processButtonsReport with the shift flag read from the stored frame
processButtonsReportStoredShift(st, r) ==
  LET nPayloadBytes == Len(r) - 1
      activeLow == ActiveLowAfter(st.m_buttonsActiveLow, r)
      newDown == NewDown(r, activeLow)
      shiftPressed == st.m_buttonDown[0]
      enc == EncoderBlock([st EXCEPT !.m_buttonsActiveLow = activeLow],
                          r, shiftPressed)
  IN IF nPayloadBytes < 5 THEN st
     ELSE [enc EXCEPT
             !.emitted = @ \o ButtonEdges(st.m_buttonDown, newDown, 0,
                                          shiftPressed),
             !.m_buttonDown = newDown]

\* processButtonsReport storing the new state of the named positions only
processButtonsReportNamedOnly(st, r) ==
  LET nPayloadBytes == Len(r) - 1
      activeLow == ActiveLowAfter(st.m_buttonsActiveLow, r)
      newDown == NewDown(r, activeLow)
      shiftPressed == newDown[0]
      enc == EncoderBlock([st EXCEPT !.m_buttonsActiveLow = activeLow],
                          r, shiftPressed)
  IN IF nPayloadBytes < 5 THEN st
     ELSE [enc EXCEPT
             !.emitted = @ \o ButtonEdges(st.m_buttonDown, newDown, 0,
                                          shiftPressed),
             !.m_buttonDown =
                [i \in 0..(kNumButtonBits - 1) |->
                   IF ButtonId(4 - (i \div 8), i % 8) = "Unknown"
                     THEN st.m_buttonDown[i] ELSE newDown[i]]]

processButtonsReport(st, r) ==
  LET nPayloadBytes == Len(r) - 1
      activeLow == ActiveLowAfter(st.m_buttonsActiveLow, r)
      newDown == NewDown(r, activeLow)
      shiftPressed == newDown[0]
      enc == EncoderBlock([st EXCEPT !.m_buttonsActiveLow = activeLow],
                          r, shiftPressed)
  IN IF nPayloadBytes < 5 THEN st
     ELSE [enc EXCEPT
             !.emitted = @ \o ButtonEdges(st.m_buttonDown, newDown, 0,
                                          shiftPressed),
             !.m_buttonDown = newDown]

(***************************************************************************)
(* processPadsLikeMk1Mk2                                                   *)
(***************************************************************************)
\* PadPair with the press event fired only on the up-to-down edge
PadPairPressOnce(st, l, h) ==
  LET rawPad == (h \div 16) % 16
      pad == kRawPadToLogical[rawPad + 1]
      value == ((h % 16) * 256) + l
      stored == [st EXCEPT !.m_padValues[pad] = value]
  IN IF rawPad >= kNumPads THEN st
     ELSE IF value > kPadThreshold
       THEN IF st.m_padDown[pad] THEN stored
            ELSE [stored EXCEPT
                    !.m_padDown[pad] = TRUE,
                    !.emitted = Append(@, keyChanged(pad, value, FALSE))]
     ELSE IF st.m_padDown[pad]
       THEN [stored EXCEPT
               !.m_padDown[pad] = FALSE,
               !.emitted = Append(@, keyChanged(pad, 0, FALSE))]
     ELSE stored

\* PadPair with the release event fired whether or not the pad was down
PadPairReleaseAlways(st, l, h) ==
  LET rawPad == (h \div 16) % 16
      pad == kRawPadToLogical[rawPad + 1]
      value == ((h % 16) * 256) + l
      stored == [st EXCEPT !.m_padValues[pad] = value]
  IN IF rawPad >= kNumPads THEN st
     ELSE IF value > kPadThreshold
       THEN [stored EXCEPT
               !.m_padDown[pad] = TRUE,
               !.emitted = Append(@, keyChanged(pad, value, FALSE))]
     ELSE [stored EXCEPT
             !.m_padDown[pad] = FALSE,
             !.emitted = Append(@, keyChanged(pad, 0, FALSE))]

\* PadPair with the emitted value clamped to 1.0
PadPairClamped(st, l, h) ==
  LET rawPad == (h \div 16) % 16
      pad == kRawPadToLogical[rawPad + 1]
      value == ((h % 16) * 256) + l
      stored == [st EXCEPT !.m_padValues[pad] = value]
      clamped == IF value > kValueDivisor THEN kValueDivisor ELSE value
  IN IF rawPad >= kNumPads THEN st
     ELSE IF value > kPadThreshold
       THEN [stored EXCEPT
               !.m_padDown[pad] = TRUE,
               !.emitted = Append(@, keyChanged(pad, clamped, FALSE))]
     ELSE IF st.m_padDown[pad]
       THEN [stored EXCEPT
               !.m_padDown[pad] = FALSE,
               !.emitted = Append(@, keyChanged(pad, 0, FALSE))]
     ELSE stored

\* PadPair with the magnitude stored only when it is above the threshold
PadPairStoreOnPress(st, l, h) ==
  LET rawPad == (h \div 16) % 16
      pad == kRawPadToLogical[rawPad + 1]
      value == ((h % 16) * 256) + l
      stored == [st EXCEPT !.m_padValues[pad] = value]
  IN IF rawPad >= kNumPads THEN st
     ELSE IF value > kPadThreshold
       THEN [stored EXCEPT
               !.m_padDown[pad] = TRUE,
               !.emitted = Append(@, keyChanged(pad, value, FALSE))]
     ELSE IF st.m_padDown[pad]
       THEN [st EXCEPT
               !.m_padDown[pad] = FALSE,
               !.emitted = Append(@, keyChanged(pad, 0, FALSE))]
     ELSE st

\* The loop body for one pair (l, h)
PadPair(st, l, h) ==
  LET rawPad == (h \div 16) % 16
      pad == kRawPadToLogical[rawPad + 1]
      value == ((h % 16) * 256) + l
      stored == [st EXCEPT !.m_padValues[pad] = value]
  IN IF rawPad >= kNumPads THEN st
     ELSE IF value > kPadThreshold
       THEN [stored EXCEPT
               !.m_padDown[pad] = TRUE,
               !.emitted = Append(@, keyChanged(pad, value, FALSE))]
     ELSE IF st.m_padDown[pad]
       THEN [stored EXCEPT
               !.m_padDown[pad] = FALSE,
               !.emitted = Append(@, keyChanged(pad, 0, FALSE))]
     ELSE stored

\* for (size_t i = 1; (i + 1) < input_.size(); i += 2)
RECURSIVE PadLoop(_, _, _)
PadLoop(st, r, i) ==
  IF (i + 1) < Len(r)
    THEN PadLoop(PadPair(st, At(r, i), At(r, i + 1)), r, i + 2)
    ELSE st

\* processPadsLikeMk1Mk2 with the pairs taken from offset 0
processPadsFromTag(st, r) == PadLoop(st, r, 0)

\* processPadsLikeMk1Mk2 resolving an unknown polarity to active-high
processPadsCalibrating(st, r) ==
  [PadLoop(st, r, 1) EXCEPT
     !.m_buttonsActiveLow = IF @ < 0 THEN 0 ELSE @]

processPadsLikeMk1Mk2(st, r) == PadLoop(st, r, 1)

(***************************************************************************)
(* processReport, read, tick, init                                         *)
(***************************************************************************)
Called(st, decoder) == [st EXCEPT !.calls = Append(@, decoder)]

\* processReport with the fallback rule taking every report of 33 bytes or more
processReportAnyLong(st, r) ==
  IF Len(r) = 0 THEN st
  ELSE IF Len(r) = 6 /\ At(r, 0) = 1
    THEN processButtonsReport(Called(st, "processButtonsReport"), r)
  ELSE IF Len(r) >= 2 /\ At(r, 0) = 32
    THEN processPadsLikeMk1Mk2(Called(st, "processPadsLikeMk1Mk2"), r)
  ELSE IF Len(r) >= 33
    THEN processPadsLikeMk1Mk2(Called(st, "processPadsLikeMk1Mk2"), r)
  ELSE st

\* processReport with the buttons rule taking every report of 6 bytes or more
\* that is tagged 0x01
processReportTagOnly(st, r) ==
  IF Len(r) = 0 THEN st
  ELSE IF Len(r) >= 6 /\ At(r, 0) = 1
    THEN processButtonsReport(Called(st, "processButtonsReport"), r)
  ELSE IF Len(r) >= 2 /\ At(r, 0) = 32
    THEN processPadsLikeMk1Mk2(Called(st, "processPadsLikeMk1Mk2"), r)
  ELSE IF Len(r) >= 33 /\ Len(r) % 2 = 1
    THEN processPadsLikeMk1Mk2(Called(st, "processPadsLikeMk1Mk2"), r)
  ELSE st

processReport(st, r) ==
  IF Len(r) = 0 THEN st
  ELSE IF Len(r) = 6 /\ At(r, 0) = 1
    THEN processButtonsReport(Called(st, "processButtonsReport"), r)
  ELSE IF Len(r) >= 2 /\ At(r, 0) = 32
    THEN processPadsLikeMk1Mk2(Called(st, "processPadsLikeMk1Mk2"), r)
  ELSE IF Len(r) >= 33 /\ Len(r) % 2 = 1
    THEN processPadsLikeMk1Mk2(Called(st, "processPadsLikeMk1Mk2"), r)
  ELSE st

\* read() with a successful read of an empty Transfer reported as a failure
readEmptyIsError(st, readOk, r) ==
  IF ~readOk THEN [st |-> st, ret |-> FALSE]
  ELSE IF Len(r) = 0 THEN [st |-> st, ret |-> FALSE]
  ELSE [st |-> processReport(st, r), ret |-> TRUE]

\* read(): the state after it and the value it returns, for a transport read
\* that succeeded (readOk) or failed and a Transfer holding r
read(st, readOk, r) ==
  IF ~readOk THEN [st |-> st, ret |-> FALSE]
  ELSE IF Len(r) = 0 THEN [st |-> st, ret |-> TRUE]
  ELSE [st |-> processReport(st, r), ret |-> TRUE]

(***************************************************************************)
(* Reports fed to the device                                               *)
(***************************************************************************)
\* Bounds of the model
MaxTrace == 5      \* ticks recorded after an init() in the recording runs
MaxPairs == 2      \* pairs in the generated tagged pad reports

\* A buttons report: tag 0x01, four bitfield bytes, the encoder byte
ButtonReport(frame, enc) == <<1>> \o frame \o <<enc>>

\* frame with the bit at position k (byte k \div 8, bit k % 8) flipped
ToggleBit(frame, k) ==
  LET j == (k \div 8) + 1
      b == frame[j]
  IN [frame EXCEPT ![j] = IF BitIsOne(b, k % 8) THEN b - Pow2(k % 8)
                                                  ELSE b + Pow2(k % 8)]

AllZeroFrame == <<0, 0, 0, 0>>
AllFFFrame == <<255, 255, 255, 255>>

\* Frames around the majority threshold of 16 set bits out of 32, and frames
\* whose first three bytes agree while the fourth does not
MixedFrames ==
  { <<255, 255, 0, 0>>,       \* 16 bits set: a tie
    <<255, 255, 1, 0>>,       \* 17
    <<255, 127, 0, 0>>,       \* 15
    <<255, 255, 255, 0>>,     \* 24, bytes 1..3 all 0xFF
    <<0, 0, 0, 255>>,         \*  8, bytes 1..3 all 0x00
    <<0, 0, 0, 1>>,
    <<255, 255, 255, 254>> }

EncoderBytes == (0..15) \cup {245, 21, 240}

\* One pair (l, h) naming rawPad with a 12-bit magnitude
PairOf(rawPad, magnitude) == << magnitude % 256, (rawPad * 16) + (magnitude \div 256) >>

Magnitudes == {0, 150, 200, 201, 250, 1024, 4095}
RawPads == {0, 15}
Pairs == { PairOf(rp, m) : rp \in RawPads, m \in {150, 250} }

RECURSIVE PairSeqs(_)
PairSeqs(n) ==
  IF n = 0 THEN { <<>> }
  ELSE LET shorter == PairSeqs(n - 1)
       IN shorter \cup { s \o q : s \in { t \in shorter : Len(t) = 2 * (n - 1) },
                                  q \in Pairs }

\* Tagged pad reports: 0x20 and one pair of every magnitude, or up to
\* MaxPairs pairs, or a trailing unpaired byte, or no complete pair at all
TaggedPadReports ==
  { <<32>> \o PairOf(rp, m) : rp \in RawPads, m \in Magnitudes }
    \cup { <<32>> \o s : s \in PairSeqs(MaxPairs) \ { <<>> } }
    \cup { <<32>> \o s \o <<77>> : s \in PairSeqs(1) }

\* A report of 1 + 2*16 (+ extra) bytes naming every raw pad once, raw pad
\* rp with magnitude mags[rp + 1]
Surface(tag, mags, extra) ==
  <<tag>> \o [i \in 1..(2 * kNumPads) |->
                PairOf((i - 1) \div 2, mags[((i - 1) \div 2) + 1])[2 - (i % 2)]]
          \o extra

AllAt(m) == [i \in 1..kNumPads |-> m]
Ramp == [i \in 1..kNumPads |-> 190 + (i * 2)]

SurfaceReports ==
  { Surface(32, AllAt(250), <<>>), Surface(1, AllAt(250), <<>>),
    Surface(0, AllAt(0), <<>>), Surface(153, Ramp, <<>>),
    Surface(1, AllAt(1024), <<9, 9>>) }

\* Reports no routing rule matches
UnrecognizedReports ==
  { <<153, 0, 0>>, <<1>>, <<32>>, <<0, 250, 1>>,
    <<1, 255, 255, 255, 255>>, <<1, 0, 0, 0, 0, 5, 0>>,
    <<2, 255, 255, 255, 254, 6>>,
    Surface(153, AllAt(250), <<9>>),                \* 34 bytes
    SubSeq(Surface(1, AllAt(250), <<>>), 1, 31),    \* 31 bytes
    SubSeq(Surface(1, AllAt(250), <<>>), 1, 32) }   \* 32 bytes

(***************************************************************************)
(* Actions                                                                 *)
(***************************************************************************)
SetState(st) ==
  /\ m_padValues' = st.m_padValues
  /\ m_padDown' = st.m_padDown
  /\ m_buttonDown' = st.m_buttonDown
  /\ m_buttonsActiveLow' = st.m_buttonsActiveLow
  /\ m_encoderInitialized' = st.m_encoderInitialized
  /\ m_encoderValue' = st.m_encoderValue
  /\ calls' = st.calls
  /\ emitted' = st.emitted

\* The constructor leaves every member at its default initializer
Constructed ==
  /\ m_padValues = initState.m_padValues
  /\ m_padDown = initState.m_padDown
  /\ m_buttonDown = initState.m_buttonDown
  /\ m_buttonsActiveLow = initState.m_buttonsActiveLow
  /\ m_encoderInitialized = initState.m_encoderInitialized
  /\ m_encoderValue = initState.m_encoderValue
  /\ op = "init"
  /\ input = <<>>
  /\ ret = TRUE
  /\ handleOk = TRUE
  /\ calls = <<>>
  /\ emitted = <<>>
  /\ trace = <<>>

Init == Constructed /\ tracing = FALSE
InitEither == Constructed /\ tracing \in BOOLEAN

\* init() resetting the pads and the button-down set only
initKeepsCalibration ==
  /\ SetState([initState EXCEPT
                 !.m_buttonsActiveLow = m_buttonsActiveLow,
                 !.m_encoderInitialized = m_encoderInitialized,
                 !.m_encoderValue = m_encoderValue])
  /\ op' = "init"
  /\ input' = <<>>
  /\ trace' = <<>>
  /\ UNCHANGED <<ret, handleOk, tracing>>

init ==
  /\ SetState(initState)
  /\ op' = "init"
  /\ input' = <<>>
  /\ trace' = <<>>
  /\ UNCHANGED <<ret, handleOk, tracing>>

\* tick() == read(): one transport read, delivering r when it succeeds
tick(readOk, r) ==
  \E res \in { read(State, readOk, r) } :
     /\ tracing => Len(trace) < MaxTrace
     /\ SetState(res.st)
     /\ op' = "tick"
     /\ input' = r
     /\ ret' = res.ret
     /\ handleOk' = readOk
     /\ trace' = IF tracing
                   THEN Append(trace, [in |-> r, out |-> res.st.emitted,
                                        ret |-> res.ret])
                   ELSE trace
     /\ UNCHANGED tracing

TickReport(reports) == \E r \in reports : tick(TRUE, r)
TickReadFails == tick(FALSE, <<>>)

(***************************************************************************)
(* Specifications                                                          *)
(*                                                                         *)
(* A run either records its ticks in trace (tracing, chosen at             *)
(* construction) or does not.  A recording run ends MaxTrace ticks after   *)
(* the last init() and is fed few reports; a run that does not record is   *)
(* unbounded and is fed all the reports of its specification.              *)
(***************************************************************************)
\* Every kind of report, few of each
Reports ==
  { ButtonReport(f, e) : f \in {AllZeroFrame, AllFFFrame, <<255, 255, 254, 255>>,
                                <<1, 0, 0, 0>>},
                         e \in {5, 6} }
    \cup { <<32>> \o PairOf(0, m) : m \in {0, 150, 250} }
    \cup { <<32, 7>>, <<32, 250, 1, 77>> }
    \cup { Surface(1, AllAt(250), <<>>), Surface(0, AllAt(0), <<>>),
           Surface(1, AllAt(1024), <<9, 9>>) }
    \cup UnrecognizedReports
    \cup { <<>> }

Next == TickReport(Reports) \/ TickReadFails \/ init
Spec == Init /\ [][Next]_vars

\* Button frames: every single-bit change of both idle frames.  The
\* hardware has one polarity: after the first report, the frames fed are
\* those of the idle frame (all 0xFF or all 0x00) the first one was near.
IdleLowFrames ==
  {AllFFFrame} \cup { ToggleBit(AllFFFrame, k) : k \in 0..(kNumButtonBits - 1) }
IdleHighFrames ==
  {AllZeroFrame} \cup { ToggleBit(AllZeroFrame, k) : k \in 0..(kNumButtonBits - 1) }

ButtonReports ==
  { ButtonReport(f, 5) : f \in IdleLowFrames \cup IdleHighFrames }
    \cup { ButtonReport(f, 6) : f \in {AllFFFrame, <<254, 255, 255, 255>>,
                                       AllZeroFrame, <<1, 0, 0, 0>>} }

SameHardware(r) ==
  \/ m_buttonsActiveLow = -1
  \/ m_buttonsActiveLow = 1 /\ SubSeq(r, 2, 5) \in IdleLowFrames
  \/ m_buttonsActiveLow = 0 /\ SubSeq(r, 2, 5) \in IdleHighFrames

NextButtons ==
  \/ \E r \in ButtonReports : SameHardware(r) /\ tick(TRUE, r)
  \/ TickReadFails
  \/ init
SpecButtons == Init /\ [][NextButtons]_vars

\* First reports of every calibration outcome
PolarityReports ==
  { ButtonReport(f, e) : f \in MixedFrames \cup {AllZeroFrame, AllFFFrame},
                         e \in {0, 5, 255} }

NextPolarity == TickReport(PolarityReports) \/ TickReadFails \/ init
SpecPolarity == Init /\ [][NextPolarity]_vars

\* Encoder positions: every nibble, and bytes with a nonzero high nibble;
\* recorded: the positions around the wrap, and the two reports
\* 01 FF FF FF FF 05, 01 FF FF FE FF 06
EncoderReports ==
  { ButtonReport(f, e) : f \in {AllFFFrame, <<254, 255, 255, 255>>},
                         e \in EncoderBytes }

EncoderTraceReports ==
  { ButtonReport(AllFFFrame, e) : e \in {0, 1, 5, 14, 15} }
    \cup { <<1, 255, 255, 254, 255, 6>> }

NextEncoder ==
  \/ ~tracing /\ TickReport(EncoderReports)
  \/ ~tracing /\ TickReadFails
  \/ tracing /\ TickReport(EncoderTraceReports)
  \/ init
SpecEncoder == InitEither /\ [][NextEncoder]_vars

\* Pad reports; recorded: one pad at four magnitudes, a report naming it
\* twice, a report naming every pad
PadReports == TaggedPadReports \cup SurfaceReports

PadTraceReports ==
  { <<32>> \o PairOf(0, m) : m \in {0, 50, 150, 250} }
    \cup { <<32>> \o PairOf(0, 250) \o PairOf(0, 150),
           Surface(1, AllAt(250), <<>>) }

NextPads ==
  \/ ~tracing /\ TickReport(PadReports)
  \/ ~tracing /\ TickReadFails
  \/ tracing /\ TickReport(PadTraceReports)
  \/ init
SpecPads == InitEither /\ [][NextPads]_vars

(***************************************************************************)
(* Vocabulary of the properties                                            *)
(***************************************************************************)
PadIds == 0..(kNumPads - 1)
ButtonBits == 0..(kNumButtonBits - 1)

\* The routing rules of the report classifier, as the specification words them
IsButtonsShape(r) == Len(r) = 6 /\ r[1] = 1
IsPadsShape(r) ==
  /\ ~IsButtonsShape(r)
  /\ \/ (Len(r) >= 2 /\ r[1] = 32)
     \/ (Len(r) >= 33 /\ Len(r) % 2 = 1)

\* The complete (L, H) pairs of a pad report: pair i is at offsets (2i-1, 2i)
PairCount(r) == (Len(r) - 1) \div 2
PairPad(r, i) == kRawPadToLogical[(At(r, 2 * i) \div 16) + 1]
PairMagnitude(r, i) == ((At(r, 2 * i) % 16) * 256) + At(r, (2 * i) - 1)
PairsIn(r) ==
  [i \in 1..PairCount(r) |->
     [pad |-> PairPad(r, i), magnitude |-> PairMagnitude(r, i)]]

NamedOnce(r, p) == Cardinality({ i \in 1..PairCount(r) : PairPad(r, i) = p }) = 1
MagnitudeFor(r, p) ==
  PairMagnitude(r, CHOOSE i \in 1..PairCount(r) : PairPad(r, i) = p)

\* The pad-value events for pad p among evs, in order
KeyEvents(evs, p) == SelectSeq(evs, LAMBDA e : e.type = "key" /\ e.pad = p)
EventsOfType(evs, t) == SelectSeq(evs, LAMBDA e : e.type = t)

\* All events fired, and all pairs delivered, over a recorded run
RECURSIVE Log(_)
Log(tr) == IF tr = <<>> THEN <<>>
           ELSE Log(SubSeq(tr, 1, Len(tr) - 1)) \o tr[Len(tr)].out

RECURSIVE Delivered(_)
Delivered(tr) ==
  IF tr = <<>> THEN <<>>
  ELSE Delivered(SubSeq(tr, 1, Len(tr) - 1))
       \o (IF IsPadsShape(tr[Len(tr)].in) THEN PairsIn(tr[Len(tr)].in) ELSE <<>>)

MagnitudesFor(tr, p) ==
  LET mine == SelectSeq(Delivered(tr), LAMBDA d : d.pad = p)
  IN [i \in 1..Len(mine) |-> mine[i].magnitude]

\* The step just taken was a tick whose report went to the pad decoder
PadTick == op' = "tick" /\ ret' /\ calls' = <<"processPadsLikeMk1Mk2">>

\* Pad p is named by exactly one pair of the report of the step, with
\* magnitude MagnitudeFor(input', p)
PadStep(p) == PadTick /\ NamedOnce(input', p)

\* The step just taken was a tick whose report went to the button decoder
ButtonsTick == op' = "tick" /\ ret' /\ calls' = <<"processButtonsReport">>

\* Bit k (0..31) of the four bitfield bytes of a buttons report, the set of
\* positions where two reports differ, and the encoder nibble
FrameBit(r, k) == BitIsOne(r[2 + (k \div 8)], k % 8)
DifferingBits(r1, r2) == { k \in ButtonBits : FrameBit(r1, k) # FrameBit(r2, k) }
Nibble(r) == r[6] % 16
Frame(r) == SubSeq(r, 2, 5)

UnknownBits == {8, 9, 10}

(***************************************************************************)
(* C1                                                                      *)
(***************************************************************************)
HysteresisRun == <<0, 250, 250, 150, 50>>

\* C1 as claimed: a pair with magnitude > 200 for a pad that is already
\* marked down fires no pad-value event, and the magnitudes 0, 250, 250, 150,
\* 50 delivered for one pad from the reset state fire exactly two pad-value
\* events for it, the press at the first 250 and the release at 150.
C1_RepeatedDownSuppressed ==
  [][ \A p \in PadIds :
        /\ (PadStep(p) /\ MagnitudeFor(input', p) > 200 /\ m_padDown[p])
             => KeyEvents(emitted', p) = <<>>
        /\ (tracing' /\ MagnitudesFor(trace', p) = HysteresisRun)
             => KeyEvents(Log(trace'), p)
                  = << keyChanged(p, 250, FALSE), keyChanged(p, 0, FALSE) >>
    ]_vars

\* C1 amended: a pair with magnitude m > 200 for a pad that is already marked
\* down leaves it down and fires one more pad-value event (pad, m/1024,
\* false); the magnitudes 0, 250, 250, 150, 50 delivered for one pad from
\* the reset state fire exactly three pad-value events for it: a press at
\* each 250 and the release at 150 (nothing at 0 and at 50).
C1_StillDownEmitsAgain ==
  [][ \A p \in PadIds :
        /\ (PadStep(p) /\ MagnitudeFor(input', p) > 200 /\ m_padDown[p])
             => /\ m_padDown'[p]
                /\ KeyEvents(emitted', p)
                     = << keyChanged(p, MagnitudeFor(input', p), FALSE) >>
        /\ (tracing' /\ MagnitudesFor(trace', p) = HysteresisRun)
             => KeyEvents(Log(trace'), p)
                  = << keyChanged(p, 250, FALSE), keyChanged(p, 250, FALSE),
                       keyChanged(p, 0, FALSE) >>
    ]_vars

\* The run 0, 250, 250, 150, 50 has been delivered for pad 12 (raw pad 0)
\* and pad 12 is up again after three events.
C1_Witness ==
  /\ tracing
  /\ MagnitudesFor(trace, 12) = HysteresisRun
  /\ Len(KeyEvents(Log(trace), 12)) = 3
  /\ ~m_padDown[12]

(***************************************************************************)
(* C9                                                                      *)
(***************************************************************************)
\* No two release events (value 0.0) in evs without a press event between
ReleasesSeparated(evs) ==
  \A i, j \in 1..Len(evs) :
    (i < j /\ evs[i].value = 0 /\ evs[j].value = 0)
      => \E k \in (i + 1)..(j - 1) : evs[k].value > 0

\* C9: a pair with magnitude <= 200 for a pad that is marked down marks it up
\* and fires exactly one pad-value event (pad, 0.0, false); for a pad that is
\* already up it fires nothing and leaves the pad up; so between two
\* consecutive release events of one pad there is always a press event of it.
C9_ReleaseDebounce ==
  [][ \A p \in PadIds :
        /\ (PadStep(p) /\ MagnitudeFor(input', p) <= 200 /\ m_padDown[p])
             => /\ ~m_padDown'[p]
                /\ KeyEvents(emitted', p)
                     = << [type |-> "key", pad |-> p, value |-> 0,
                           shift |-> FALSE] >>
        /\ (PadStep(p) /\ MagnitudeFor(input', p) <= 200 /\ ~m_padDown[p])
             => /\ m_padDown'[p] = m_padDown[p]
                /\ KeyEvents(emitted', p) = <<>>
        /\ tracing' => ReleasesSeparated(KeyEvents(Log(trace'), p))
    ]_vars

\* Pad 12 was pressed and released twice, and a further magnitude <= 200
\* arrived for it while it was up.
C9_Witness ==
  /\ tracing
  /\ MagnitudesFor(trace, 12) = <<250, 150, 250, 50, 0>>
  /\ KeyEvents(Log(trace), 12)
       = << keyChanged(12, 250, FALSE), keyChanged(12, 0, FALSE),
            keyChanged(12, 250, FALSE), keyChanged(12, 0, FALSE) >>
  /\ emitted = <<>>

(***************************************************************************)
(* C10                                                                     *)
(***************************************************************************)
\* C10: a pair with magnitude m > 200 for a pad that is not marked down marks
\* it down and fires exactly one pad-value event (pad, m/1024, false); the
\* value is not clamped: 1024 gives 1.0 and 4095 gives 4095/1024 (3.999);
\* magnitude 200 never fires a press event and 201 does.
C10_PressUnclamped ==
  [][ \A p \in PadIds :
        LET m == MagnitudeFor(input', p)
            evs == KeyEvents(emitted', p)
        IN PadStep(p) =>
             /\ (m > 200 /\ ~m_padDown[p])
                  => /\ m_padDown'[p]
                     /\ evs = << [type |-> "key", pad |-> p, value |-> m,
                                  shift |-> FALSE] >>
                     /\ (m = 1024 => evs[1].value = kValueDivisor)
                     /\ (m = 4095 => /\ evs[1].value > 3 * kValueDivisor
                                     /\ (evs[1].value * 1000) \div kValueDivisor
                                          = 3999)
             /\ (m = 200 => \A i \in 1..Len(evs) : evs[i].value = 0)
             /\ (m = 201 => /\ Len(evs) = 1
                            /\ evs[1].value = 201)
    ]_vars

\* Pad 12, up, received magnitude 4095 and fired the value 4095/1024.
C10_Witness ==
  /\ op = "tick"
  /\ input = <<32>> \o PairOf(0, 4095)
  /\ emitted = << [type |-> "key", pad |-> 12, value |-> 4095,
                   shift |-> FALSE] >>
  /\ m_padDown[12]
  /\ m_padValues[12] = 4095

(***************************************************************************)
(* C2                                                                      *)
(***************************************************************************)
\* Two consecutive buttons reports, the second not differing from the first
\* in the encoder nibble
ButtonsStepSameNibble ==
  /\ op = "tick" /\ ret /\ IsButtonsShape(input)
  /\ ButtonsTick
  /\ Nibble(input) = Nibble(input')

\* The button-changed event the table gives for bit k of the report of the step
TableEventFor(k, evs) ==
  /\ Len(evs) = 1
  /\ evs[1].type = "button"
  /\ evs[1].id = kButtonByBankBit[(4 - (k \div 8)) + 1][(k % 8) + 1]
  /\ evs[1].pressed = (IF m_buttonsActiveLow' = 1 THEN ~FrameBit(input', k)
                                                  ELSE FrameBit(input', k))

\* C2 as claimed: for every one of the 32 bit positions and either polarity,
\* a report that differs from the previous one in exactly that bit (and not
\* in the encoder nibble) fires exactly one button-changed event, with the
\* new polarity-corrected state and the identity of the table at
\* bank 4 - position/8, bit position%8.
C2_EveryBitOneEvent ==
  [][ ButtonsStepSameNibble =>
        \A d \in { DifferingBits(input, input') } :
          \A k \in d : d = {k} => TableEventFor(k, emitted')
    ]_vars

\* C2 amended: that holds for the 29 positions whose table identity is not
\* Unknown; for the three positions 8, 9 and 10 (report byte 2, bits 0..2:
\* bank 3, bits 0..2, Unknown in the table) the second report fires no event.
\* In both cases the stored state of the bit changes with the report.
C2_NamedBitOneEvent ==
  [][ ButtonsStepSameNibble =>
        \A d \in { DifferingBits(input, input') } :
          \A k \in d :
            d = {k} =>
              /\ k \notin UnknownBits => TableEventFor(k, emitted')
              /\ k \in UnknownBits => emitted' = <<>>
              /\ (k \in UnknownBits)
                   = (kButtonByBankBit[(4 - (k \div 8)) + 1][(k % 8) + 1]
                        = "Unknown")
              /\ m_buttonDown'[k] # m_buttonDown[k]
    ]_vars

\* Active-low, bit 31 (report byte 4, bit 7) just went from set to clear:
\* bank 1, bit 7, Scene pressed.
C2_Witness ==
  /\ op = "tick"
  /\ m_buttonsActiveLow = 1
  /\ input = <<1, 255, 255, 255, 127, 5>>
  /\ emitted = << [type |-> "button", id |-> "Scene", pressed |-> TRUE,
                   shift |-> FALSE] >>
  /\ m_buttonDown = [i \in ButtonBits |-> i = 31]

(***************************************************************************)
(* C3                                                                      *)
(***************************************************************************)
\* C3: once the polarity has left Unknown no tick changes it, whatever the
\* report; a tick leaves Unknown only through the button decoder; init()
\* returns it to Unknown; and an all-0xFF (all-0x00) buttons report arriving
\* after the polarity is resolved stores all buttons up (down) under
\* active-low and down (up) under active-high.
C3_PolarityResolvedOnce ==
  [][ /\ (m_buttonsActiveLow # -1 /\ op' = "tick")
           => m_buttonsActiveLow' = m_buttonsActiveLow
      /\ (m_buttonsActiveLow = -1 /\ op' = "tick")
           => IF ButtonsTick THEN m_buttonsActiveLow' \in {0, 1}
                             ELSE m_buttonsActiveLow' = -1
      /\ op' = "init" => m_buttonsActiveLow' = -1
      /\ (m_buttonsActiveLow # -1 /\ ButtonsTick /\ Frame(input') = AllFFFrame)
           => m_buttonDown' = [i \in ButtonBits |-> m_buttonsActiveLow = 0]
      /\ (m_buttonsActiveLow # -1 /\ ButtonsTick /\ Frame(input') = AllZeroFrame)
           => m_buttonDown' = [i \in ButtonBits |-> m_buttonsActiveLow = 1]
    ]_vars

\* The polarity is active-low (resolved by an earlier report) and the report
\* just processed is all 0x00: every button is stored as down.
C3_Witness ==
  /\ op = "tick"
  /\ m_buttonsActiveLow = 1
  /\ IsButtonsShape(input) /\ Frame(input) = AllZeroFrame
  /\ m_buttonDown = [i \in ButtonBits |-> TRUE]

(***************************************************************************)
(* C4                                                                      *)
(***************************************************************************)
Positions(tr) == [i \in 1..Len(tr) |-> Nibble(tr[i].in)]
Directions(tr) ==
  LET evs == EventsOfType(Log(tr), "encoder")
  IN [i \in 1..Len(evs) |-> evs[i].increased]

\* C4: a move from the stored position p to c # p fires an encoder event
\* with increased = (p < c or (p = 15 and c = 0)) and not (p = 0 and c = 15);
\* after the baseline 14 the positions 15, 0, 1 fire three increased events,
\* after the baseline 1 the positions 0, 15, 14 three not increased ones;
\* 0 -> 15 is not increased and 15 -> 0 is.
C4_EncoderDirection ==
  [][ /\ (ButtonsTick /\ m_encoderInitialized /\ Nibble(input') # m_encoderValue)
           => LET p == m_encoderValue
                  c == Nibble(input')
                  evs == EventsOfType(emitted', "encoder")
              IN /\ Len(evs) = 1
                 /\ evs[1].increased
                      = ((p < c \/ (p = 15 /\ c = 0)) /\ ~(p = 0 /\ c = 15))
      /\ tracing' =>
           /\ Positions(trace') = <<14, 15, 0, 1>>
                => Directions(trace') = <<TRUE, TRUE, TRUE>>
           /\ Positions(trace') = <<1, 0, 15, 14>>
                => Directions(trace') = <<FALSE, FALSE, FALSE>>
           /\ Positions(trace') = <<0, 15>> => Directions(trace') = <<FALSE>>
           /\ Positions(trace') = <<15, 0>> => Directions(trace') = <<TRUE>>
    ]_vars

\* Baseline 14, then 15, 0, 1: three events, the stored position is 1.
C4_Witness ==
  /\ tracing
  /\ Positions(trace) = <<14, 15, 0, 1>>
  /\ Len(EventsOfType(Log(trace), "encoder")) = 3
  /\ m_encoderValue = 1

(***************************************************************************)
(* C5                                                                      *)
(***************************************************************************)
FirstReport == <<1, 255, 255, 255, 255, 5>>
SecondReport == <<1, 255, 255, 254, 255, 6>>

\* C5: from the reset state, 01 FF FF FF FF 05 resolves the polarity to
\* active-low, stores the encoder baseline 5 and fires nothing; then
\* 01 FF FF FE FF 06 fires exactly one encoder event (increased) and exactly
\* one button event (pressed, the table identity of bit 0 of report byte 3),
\* both with shiftHeld false, and leaves the stored encoder position at 6.
C5_EndToEnd ==
  tracing =>
    /\ (Len(trace) = 1 /\ trace[1].in = FirstReport)
         => /\ emitted = <<>>
            /\ m_buttonsActiveLow = 1
            /\ m_encoderInitialized
            /\ m_encoderValue = 5
    /\ (Len(trace) = 2 /\ trace[1].in = FirstReport /\ trace[2].in = SecondReport)
         => LET enc == EventsOfType(emitted, "encoder")
                btn == EventsOfType(emitted, "button")
            IN /\ trace[1].out = <<>>
               /\ Len(emitted) = 2
               /\ Len(enc) = 1 /\ enc[1].increased /\ ~enc[1].shift
               /\ Len(btn) = 1 /\ btn[1].pressed /\ ~btn[1].shift
               /\ DifferingBits(FirstReport, SecondReport) = {16}
               /\ btn[1].id = kButtonByBankBit[(4 - (16 \div 8)) + 1][(16 % 8) + 1]
               /\ m_buttonsActiveLow = 1
               /\ m_encoderValue = 6

\* The two reports have been processed, in that order, since the reset.
C5_Witness ==
  /\ tracing
  /\ Len(trace) = 2
  /\ trace[1].in = FirstReport /\ trace[2].in = SecondReport
  /\ Len(emitted) = 2
  /\ m_buttonDown[16]

(***************************************************************************)
(* C6                                                                      *)
(***************************************************************************)
Unrouted(r) ==
  /\ r # <<>>
  /\ ~(Len(r) = 6 /\ r[1] = 1)
  /\ ~(Len(r) >= 2 /\ r[1] = 32)
  /\ ~(Len(r) >= 33 /\ Len(r) % 2 = 1)

\* C6: a non-empty report that matches none of the three routing rules fires
\* no event, makes tick() return true (no error) and leaves padValues,
\* padDown, buttonDown, the polarity and both encoder fields unchanged.
C6_UnrecognizedDiscarded ==
  [][ (op' = "tick" /\ Unrouted(input'))
        => /\ emitted' = <<>>
           /\ calls' = <<>>
           /\ ret' = TRUE
           /\ UNCHANGED <<m_padValues, m_padDown, m_buttonDown,
                          m_buttonsActiveLow, m_encoderInitialized,
                          m_encoderValue>>
    ]_vars

\* The length-3 report tagged 0x99 was just discarded by a device with a
\* resolved polarity, a moved encoder and a pad held down.
C6_Witness ==
  /\ op = "tick" /\ ret
  /\ input = <<153, 0, 0>>
  /\ emitted = <<>>
  /\ m_buttonsActiveLow = 1
  /\ m_encoderInitialized /\ m_encoderValue = 6
  /\ m_padDown[12] /\ m_padValues[12] = 250

(***************************************************************************)
(* C7                                                                      *)
(***************************************************************************)
\* C7: the report of a tick goes to the button decoder iff its length is 6
\* and byte 0 is 0x01; otherwise to the pad decoder iff (length >= 2 and
\* byte 0 is 0x20) or (length >= 33 and odd); otherwise to no decoder; never
\* to both.
C7_FirstMatchWins ==
  LET toButtons == Len(input) = 6 /\ input[1] = 1
      toPads == /\ ~toButtons
                /\ \/ (Len(input) >= 2 /\ input[1] = 32)
                   \/ (Len(input) >= 33 /\ Len(input) % 2 = 1)
  IN (op = "tick" /\ ret) =>
       /\ Len(calls) <= 1
       /\ (calls = <<"processButtonsReport">>) = toButtons
       /\ (calls = <<"processPadsLikeMk1Mk2">>) = toPads
       /\ (calls = <<>>) = (~toButtons /\ ~toPads)

\* A 33-byte report whose byte 0 is 0x01 went to the pad decoder alone.
C7_Witness ==
  /\ op = "tick" /\ ret
  /\ Len(input) = 33 /\ input[1] = 1
  /\ calls = <<"processPadsLikeMk1Mk2">>
  /\ m_padDown = [p \in PadIds |-> TRUE]

(***************************************************************************)
(* C8                                                                      *)
(***************************************************************************)
SetBits(r) == Cardinality({ k \in ButtonBits : FrameBit(r, k) })

\* C8: the first buttons report after init/reset resolves the polarity from
\* report bytes 1..4 alone: active-low if all four are 0xFF, else active-high
\* if all four are 0x00, else active-low iff more than 16 of the 32 bits are
\* set (a tie of 16 gives active-high); the encoder byte plays no part.
C8_CalibrationRule ==
  [][ (m_buttonsActiveLow = -1 /\ ButtonsTick)
        => m_buttonsActiveLow'
             = (IF \A i \in 2..5 : input'[i] = 255 THEN 1
                ELSE IF \A i \in 2..5 : input'[i] = 0 THEN 0
                ELSE IF SetBits(input') > 16 THEN 1 ELSE 0)
    ]_vars

\* The tie frame FF FF 00 00 (16 bits set) with the encoder byte 0xFF arrived
\* first after a reset and resolved active-high: the 13 named buttons of
\* report bytes 1 and 2 are reported pressed, with Shift held.
C8_Witness ==
  /\ op = "tick"
  /\ input = <<1, 255, 255, 0, 0, 255>>
  /\ m_buttonsActiveLow = 0
  /\ m_encoderValue = 15
  /\ Len(emitted) = 13
  /\ \A i \in 1..Len(emitted) : emitted[i].pressed /\ emitted[i].shift

(***************************************************************************)
(* C11                                                                     *)
(***************************************************************************)
\* Ticks of every outcome; recorded: the two reports of C5, an all-0x00
\* buttons report, a pad press, an unrecognized report, an empty Transfer and
\* a failed read
TickTraceReports ==
  { FirstReport, SecondReport, <<1, 0, 0, 0, 0, 9>>, <<32>> \o PairOf(0, 250),
    <<153, 0, 0>>, <<>> }

NextTick ==
  \/ ~tracing /\ TickReport(Reports)
  \/ tracing /\ TickReport(TickTraceReports)
  \/ TickReadFails
  \/ init
SpecTick == InitEither /\ [][NextTick]_vars

\* The six data members of a state record
Members(st) ==
  << st.m_padValues, st.m_padDown, st.m_buttonDown, st.m_buttonsActiveLow,
     st.m_encoderInitialized, st.m_encoderValue >>

\* The Transfers of the recorded ticks that returned true, in order
OkInputs(tr) ==
  LET ok == SelectSeq(tr, LAMBDA e : e.ret)
  IN [i \in 1..Len(ok) |-> ok[i].in]

\* The state after the Transfers ins have been read, one per tick, from st
RECURSIVE Replay(_, _)
Replay(st, ins) ==
  IF ins = <<>> THEN st
  ELSE Replay(read([st EXCEPT !.calls = <<>>, !.emitted = <<>>],
                   TRUE, Head(ins)).st,
              Tail(ins))

\* C11: tick() returns false exactly when the transport read fails, and then
\* fires no event and leaves the six members unchanged; a successful read of
\* an empty Transfer returns true, fires nothing and leaves them unchanged; a
\* successful read of a non-empty Transfer returns true whatever its shape;
\* and the members and the events of a tick are those of the same run with
\* the failed ticks left out.
C11_TickOutcome ==
  [][ op' = "tick" =>
        /\ ret' = handleOk'
        /\ ~handleOk'
             => /\ emitted' = <<>>
                /\ calls' = <<>>
                /\ UNCHANGED <<m_padValues, m_padDown, m_buttonDown,
                               m_buttonsActiveLow, m_encoderInitialized,
                               m_encoderValue>>
        /\ (handleOk' /\ input' = <<>>)
             => /\ ret' = TRUE
                /\ emitted' = <<>>
                /\ UNCHANGED <<m_padValues, m_padDown, m_buttonDown,
                               m_buttonsActiveLow, m_encoderInitialized,
                               m_encoderValue>>
        /\ (handleOk' /\ input' # <<>>) => ret' = TRUE
        /\ tracing'
             => \E r \in { Replay(initState, OkInputs(trace')) } :
                  /\ Members(r) = << m_padValues', m_padDown', m_buttonDown',
                                     m_buttonsActiveLow', m_encoderInitialized',
                                     m_encoderValue' >>
                  /\ ret' => emitted' = r.emitted
    ]_vars

\* After the reset: 01 FF FF FF FF 05, a failed read, an empty Transfer, then
\* 01 FF FF FE FF 06, which fired its encoder and its button event.
C11_Witness ==
  /\ tracing
  /\ Len(trace) = 4
  /\ trace[1].in = FirstReport
  /\ ~trace[2].ret
  /\ trace[3].in = <<>> /\ trace[3].ret
  /\ trace[4].in = SecondReport
  /\ ret /\ handleOk
  /\ Len(emitted) = 2
  /\ m_encoderValue = 6

(***************************************************************************)
(* C12                                                                     *)
(***************************************************************************)
\* No buttons report has been processed since the last init(): the step
\* follows the init() directly or, in a recording run, none is recorded
NoButtonsReportSinceReset ==
  \/ op = "init"
  \/ tracing /\ \A i \in 1..Len(trace) : ~(trace[i].ret /\ IsButtonsShape(trace[i].in))

\* The polarity the calibration rule gives for a buttons report
CalibratedPolarity(r) ==
  IF \A i \in 2..5 : r[i] = 255 THEN 1
  ELSE IF \A i \in 2..5 : r[i] = 0 THEN 0
  ELSE IF SetBits(r) > 16 THEN 1 ELSE 0

\* C12: init(), from any state, leaves all 16 padValues 0, padDown and
\* buttonDown all false, the polarity Unknown, the encoder uncalibrated and
\* its stored value 0; the first buttons report after it resolves the
\* polarity from that report alone, stores its nibble as the encoder baseline
\* and fires no encoder event.
C12_ResetTotal ==
  [][ /\ op' = "init"
           => /\ \A p \in PadIds : m_padValues'[p] = 0 /\ ~m_padDown'[p]
              /\ DOMAIN m_padValues' = 0..15 /\ DOMAIN m_padDown' = 0..15
              /\ \A i \in ButtonBits : ~m_buttonDown'[i]
              /\ DOMAIN m_buttonDown' = 0..31
              /\ m_buttonsActiveLow' = -1
              /\ ~m_encoderInitialized'
              /\ m_encoderValue' = 0
              /\ emitted' = <<>>
      /\ (NoButtonsReportSinceReset /\ ButtonsTick)
           => /\ m_buttonsActiveLow' = CalibratedPolarity(input')
              /\ m_encoderInitialized'
              /\ m_encoderValue' = Nibble(input')
              /\ EventsOfType(emitted', "encoder") = <<>>
    ]_vars

\* After a reset a pad was pressed and a read failed; then the first buttons
\* report, 01 00 00 00 00 09, resolved active-high with the baseline 9 and
\* fired nothing, while pad 12 is still down.
C12_Witness ==
  /\ tracing
  /\ Len(trace) = 3
  /\ trace[1].in = <<32>> \o PairOf(0, 250)
  /\ ~trace[2].ret
  /\ trace[3].in = <<1, 0, 0, 0, 0, 9>>
  /\ m_buttonsActiveLow = 0
  /\ m_encoderInitialized /\ m_encoderValue = 9
  /\ emitted = <<>>
  /\ m_padDown[12]

(***************************************************************************)
(* C13                                                                     *)
(***************************************************************************)
\* A buttons report has been processed since the last init(): by the tick
\* before the step or, in a recording run, by a recorded one
ButtonsReportSinceReset ==
  \/ op = "tick" /\ ret /\ calls = <<"processButtonsReport">>
  \/ tracing /\ \E i \in 1..Len(trace) : trace[i].ret /\ IsButtonsShape(trace[i].in)

HighNibbles == {0, 1, 15}

\* The buttons report r with the high nibble of byte 5 replaced by hi
WithHighNibble(r, hi) == [r EXCEPT ![6] = (hi * 16) + (r[6] % 16)]

\* C13: the first buttons report after init/reset stores the low nibble of
\* byte 5 as the baseline and fires no encoder event; every later one fires
\* exactly one encoder event (index 0) if the nibble differs from the stored
\* position and none if it is equal; after every buttons report the stored
\* position is the low nibble of its byte 5; and the outcome of a buttons
\* report is the same for every high nibble of byte 5.
C13_EncoderBaseline ==
  [][ ButtonsTick =>
        \E enc \in { EventsOfType(emitted', "encoder") } :
          /\ m_encoderInitialized'
          /\ m_encoderValue' = input'[6] % 16
          /\ NoButtonsReportSinceReset => ~m_encoderInitialized /\ enc = <<>>
          /\ ButtonsReportSinceReset => m_encoderInitialized
          /\ m_encoderInitialized
               => IF (input'[6] % 16) # m_encoderValue
                    THEN /\ Len(enc) = 1
                         /\ enc[1].index = 0
                    ELSE enc = <<>>
          /\ \A hi \in HighNibbles :
               \E other \in { processButtonsReport(State,
                                                   WithHighNibble(input', hi)) } :
                 /\ Members(other) = << m_padValues', m_padDown', m_buttonDown',
                                        m_buttonsActiveLow', m_encoderInitialized',
                                        m_encoderValue' >>
                 /\ other.emitted = emitted'
    ]_vars

\* The encoder byte 0xF0 arrived with the position 5 stored: one encoder
\* event, not increased, and the stored position is 0.
C13_Witness ==
  /\ op = "tick"
  /\ input = <<1, 255, 255, 255, 255, 240>>
  /\ emitted = << [type |-> "encoder", index |-> 0, increased |-> FALSE,
                   shift |-> FALSE] >>
  /\ m_encoderInitialized
  /\ m_encoderValue = 0

(***************************************************************************)
(* C14                                                                     *)
(***************************************************************************)
\* The polarity-corrected pressed state of bit k of a buttons report
PressedIn(r, activeLow, k) ==
  IF activeLow = 1 THEN ~FrameBit(r, k) ELSE FrameBit(r, k)

\* C14: every event fired while one buttons report is processed carries
\* shiftHeld equal to the polarity-corrected state of bit 0 of report byte 1
\* of that report; the Shift button's own event is fired when that state
\* changes and carries shiftHeld = pressed: true on press, false on release.
C14_ShiftFromNewFrame ==
  [][ ButtonsTick =>
        \E held \in { PressedIn(input', m_buttonsActiveLow', 0) } :
          /\ \A i \in 1..Len(emitted') : emitted'[i].shift = held
          /\ \A i \in 1..Len(emitted') :
               (emitted'[i].type = "button" /\ emitted'[i].id = "Shift")
                 => /\ emitted'[i].pressed = held
                    /\ emitted'[i].shift = emitted'[i].pressed
                    /\ m_buttonDown[0] # held
          /\ (m_buttonDown[0] # held)
               => \E i \in 1..Len(emitted') :
                    emitted'[i].type = "button" /\ emitted'[i].id = "Shift"
    ]_vars

\* Active-high, Shift held with other buttons in the stored frame; the
\* all-0x00 report with a moved encoder released them all: the encoder event
\* and the Shift release, like every other event, carry shiftHeld false.
C14_Witness ==
  /\ op = "tick"
  /\ m_buttonsActiveLow = 0
  /\ IsButtonsShape(input)
  /\ Frame(input) = AllZeroFrame
  /\ Len(emitted) = 30
  /\ emitted[1].type = "encoder" /\ ~emitted[1].shift
  /\ emitted[2] = [type |-> "button", id |-> "Shift", pressed |-> FALSE,
                   shift |-> FALSE]
  /\ \A i \in 1..Len(emitted) : ~emitted[i].shift

(***************************************************************************)
(* C15                                                                     *)
(***************************************************************************)
\* The table identity of bit position k, and the position of a named identity
IdAt(k) == kButtonByBankBit[(4 - (k \div 8)) + 1][(k % 8) + 1]
PositionOf(id) == CHOOSE k \in ButtonBits : IdAt(k) = id

\* C15: the events of one buttons report are the encoder event, if there is
\* one, followed by the button events; the button events are those of the
\* named bit positions whose state changed, one each, in strictly ascending
\* position order (report byte 1 bit 0 first, report byte 4 bit 7 last).
C15_EventOrder ==
  [][ ButtonsTick =>
        \E enc \in { EventsOfType(emitted', "encoder") } :
          \E btn \in { EventsOfType(emitted', "button") } :
            /\ Len(enc) <= 1
            /\ emitted' = enc \o btn
            /\ \A i \in 1..(Len(btn) - 1) :
                 PositionOf(btn[i].id) < PositionOf(btn[i + 1].id)
            /\ { PositionOf(btn[i].id) : i \in 1..Len(btn) }
                 = { k \in ButtonBits :
                       /\ k \notin UnknownBits
                       /\ m_buttonDown'[k] # m_buttonDown[k] }
            /\ \A i \in 1..Len(btn) :
                 /\ btn[i].id # "Unknown"
                 /\ IdAt(PositionOf(btn[i].id)) = btn[i].id
                 /\ \A k \in ButtonBits :
                      IdAt(k) = btn[i].id => k = PositionOf(btn[i].id)
    ]_vars

\* Active-high, the 13 named buttons of report bytes 1 and 2 were down; the
\* all-0x00 report with a moved encoder fired the encoder event first, then
\* the 13 releases from Shift (position 0) to Browse (position 15).
C15_Witness ==
  /\ op = "tick"
  /\ m_buttonsActiveLow = 0
  /\ input = <<1, 0, 0, 0, 0, 5>>
  /\ Len(emitted) = 14
  /\ emitted[1].type = "encoder"
  /\ emitted[2].type = "button" /\ emitted[2].id = "Shift"
  /\ emitted[9].type = "button" /\ emitted[9].id = "Restart"
  /\ emitted[10].type = "button" /\ emitted[10].id = "MainEncoder"
  /\ emitted[14].type = "button" /\ emitted[14].id = "Browse"

(***************************************************************************)
(* C16                                                                     *)
(***************************************************************************)
\* C16: after every buttons report, for all 32 positions i, buttonDown[i] is
\* the polarity-corrected bit i of that report (bit set = pressed under
\* active-high, bit clear = pressed under active-low), the positions with the
\* identity Unknown included; the same report processed again directly
\* afterwards fires no button event.
C16_StoredInFull ==
  [][ ButtonsTick =>
        /\ m_buttonsActiveLow' \in {0, 1}
        /\ DOMAIN m_buttonDown' = ButtonBits
        /\ \A i \in ButtonBits :
             m_buttonDown'[i] = (IF m_buttonsActiveLow' = 1
                                   THEN ~FrameBit(input', i)
                                   ELSE FrameBit(input', i))
        /\ EventsOfType(processButtonsReport(State', input').emitted, "button")
             = <<>>
        /\ (op = "tick" /\ ret /\ calls = <<"processButtonsReport">>
              /\ input = input')
             => emitted' = <<>>
    ]_vars

\* Active-high, the all-0xFF report was processed twice in a row: all 32
\* positions are stored as down, the Unknown ones included, and the second
\* report fired nothing.
C16_Witness ==
  /\ op = "tick"
  /\ m_buttonsActiveLow = 0
  /\ IsButtonsShape(input)
  /\ Frame(input) = AllFFFrame
  /\ m_buttonDown = [i \in ButtonBits |-> TRUE]
  /\ m_buttonDown[8] /\ m_buttonDown[9] /\ m_buttonDown[10]
  /\ emitted = <<>>

(***************************************************************************)
(* C17                                                                     *)
(***************************************************************************)
\* a is b with some elements left out
RECURSIVE IsSubsequence(_, _)
IsSubsequence(a, b) ==
  IF a = <<>> THEN TRUE
  ELSE IF b = <<>> THEN FALSE
  ELSE IF Head(a) = Head(b) THEN IsSubsequence(Tail(a), Tail(b))
  ELSE IsSubsequence(a, Tail(b))

\* The pairs of r naming pad p, and the last of them
PairsNaming(r, p) == { i \in 1..PairCount(r) : PairPad(r, i) = p }
LastPairNaming(r, p) ==
  CHOOSE i \in PairsNaming(r, p) : \A j \in PairsNaming(r, p) : j <= i

TagBytes == {0, 32, 255}

\* C17: a pad report is consumed as pairs (L, H) at offsets (1,2), (3,4), ...
\* in ascending order; a trailing unpaired byte and byte 0 play no part; the
\* pad of a pair is table[H >> 4], table = 12,13,14,15,8,...,0,1,2,3, a
\* bijection on 0..15, and its magnitude (H mod 16) * 256 + L; padValues of
\* a named pad is the magnitude of the last pair naming it, event or not,
\* and padValues of the other pads is unchanged; there is at most one event
\* per pair, in pair order.
C17_PairDecode ==
  [][ PadTick =>
        \E r \in { input' } :
          /\ kRawPadToLogical
               = <<12, 13, 14, 15, 8, 9, 10, 11, 4, 5, 6, 7, 0, 1, 2, 3>>
          /\ { kRawPadToLogical[i] : i \in 1..16 } = 0..15
          /\ \A i \in 1..PairCount(r) :
               /\ PairPad(r, i) = kRawPadToLogical[(r[(2 * i) + 1] \div 16) + 1]
               /\ PairMagnitude(r, i) = ((r[(2 * i) + 1] % 16) * 256) + r[2 * i]
          /\ \A p \in PadIds :
               IF PairsNaming(r, p) = {}
                 THEN /\ m_padValues'[p] = m_padValues[p]
                      /\ m_padDown'[p] = m_padDown[p]
                      /\ KeyEvents(emitted', p) = <<>>
                 ELSE /\ m_padValues'[p] = PairMagnitude(r, LastPairNaming(r, p))
                      /\ Len(KeyEvents(emitted', p))
                           <= Cardinality(PairsNaming(r, p))
          /\ \A i \in 1..Len(emitted') : emitted'[i].type = "key"
          /\ Len(emitted') <= PairCount(r)
          /\ IsSubsequence([i \in 1..Len(emitted') |-> emitted'[i].pad],
                           [i \in 1..PairCount(r) |-> PairPad(r, i)])
          /\ (Len(r) % 2 = 0)
               => \E other \in { processPadsLikeMk1Mk2(State,
                                                       SubSeq(r, 1, Len(r) - 1)) } :
                    /\ other.m_padValues = m_padValues'
                    /\ other.m_padDown = m_padDown'
                    /\ other.emitted = emitted'
          /\ \A tag \in TagBytes :
               \E other \in { processPadsLikeMk1Mk2(State, [r EXCEPT ![1] = tag]) } :
                 /\ other.m_padValues = m_padValues'
                 /\ other.m_padDown = m_padDown'
                 /\ other.emitted = emitted'
    ]_vars

\* 20 FA 00 96 00: two pairs for raw pad 0 (pad 12), 250 then 150; the press
\* and then the release were fired and the stored magnitude is 150.
C17_Witness ==
  /\ op = "tick"
  /\ input = <<32, 250, 0, 150, 0>>
  /\ emitted = << keyChanged(12, 250, FALSE), keyChanged(12, 0, FALSE) >>
  /\ m_padValues[12] = 150
  /\ ~m_padDown[12]

(***************************************************************************)
(* C18                                                                     *)
(***************************************************************************)
\* C18: in every reachable state, for every logical pad p, padDown[p] holds
\* if and only if padValues[p] > 200, and padValues[p] is within 0..4095.
C18_PadFieldsAgree ==
  /\ DOMAIN m_padValues = PadIds
  /\ DOMAIN m_padDown = PadIds
  /\ \A p \in PadIds :
       /\ m_padDown[p] = (m_padValues[p] > 200)
       /\ m_padValues[p] \in 0..4095

\* Pad 12 is held at 4095; pad 3, which was down, has just been released by
\* the magnitude 200 and stores it.
C18_Witness ==
  /\ op = "tick"
  /\ input = <<32>> \o PairOf(15, 200)
  /\ emitted = << keyChanged(3, 0, FALSE) >>
  /\ m_padValues[3] = 200 /\ ~m_padDown[3]
  /\ m_padValues[12] = 4095 /\ m_padDown[12]

(***************************************************************************)
(* C19                                                                     *)
(***************************************************************************)
\* C19: a pad report changes none of buttonDown, the polarity, the encoder
\* calibrated flag and the encoder value and fires only pad events, so that
\* one arriving before the first buttons report leaves the device
\* uncalibrated; a buttons report changes neither padValues nor padDown and
\* fires no pad event.
C19_DecodersDisjoint ==
  [][ /\ PadTick
           => /\ UNCHANGED <<m_buttonDown, m_buttonsActiveLow,
                             m_encoderInitialized, m_encoderValue>>
              /\ \A i \in 1..Len(emitted') : emitted'[i].type = "key"
              /\ NoButtonsReportSinceReset
                   => m_buttonsActiveLow' = -1 /\ ~m_encoderInitialized'
      /\ ButtonsTick
           => /\ UNCHANGED <<m_padValues, m_padDown>>
              /\ \A i \in 1..Len(emitted') :
                   emitted'[i].type \in {"button", "encoder"}
    ]_vars

\* After the reset a pad report pressed pad 12; the buttons report
\* 01 FF FF FF FF 05 that followed still ran the calibration (active-low,
\* baseline 5, no event) and left the pad down.
C19_Witness ==
  /\ tracing
  /\ Len(trace) = 2
  /\ trace[1].in = <<32>> \o PairOf(0, 250)
  /\ trace[1].out = << keyChanged(12, 250, FALSE) >>
  /\ trace[2].in = FirstReport
  /\ emitted = <<>>
  /\ m_buttonsActiveLow = 1
  /\ m_encoderInitialized /\ m_encoderValue = 5
  /\ m_padDown[12] /\ m_padValues[12] = 250

(***************************************************************************)
(* C20                                                                     *)
(***************************************************************************)
\* C20: for distinct positions a and b the direction fired for a -> b is the
\* opposite of the one fired for b -> a: a buttons report that moves the
\* stored position from a to b fires one encoder event, the report that
\* moves it back fires one with the other direction and stores a again.
C20_DirectionAntisymmetric ==
  [][ /\ (ButtonsTick /\ m_encoderInitialized
            /\ (input'[6] % 16) # m_encoderValue)
           => \E a \in { m_encoderValue } :
                \E fwd \in { EventsOfType(emitted', "encoder") } :
                  \E back \in { processButtonsReport(State',
                                                     [input' EXCEPT ![6] = a]) } :
                    \E rev \in { EventsOfType(back.emitted, "encoder") } :
                      /\ Len(fwd) = 1
                      /\ Len(rev) = 1
                      /\ fwd[1].increased # rev[1].increased
                      /\ back.m_encoderValue = a
      /\ tracing'
           => \E n \in { Len(trace') } :
                (/\ n >= 3
                 /\ \A i \in (n - 2)..n : IsButtonsShape(trace'[i].in)
                 /\ Nibble(trace'[n - 2].in) = Nibble(trace'[n].in)
                 /\ Nibble(trace'[n - 2].in) # Nibble(trace'[n - 1].in))
                  => \E there \in { EventsOfType(trace'[n - 1].out, "encoder") } :
                       \E again \in { EventsOfType(trace'[n].out, "encoder") } :
                         /\ Len(there) = 1
                         /\ Len(again) = 1
                         /\ there[1].increased # again[1].increased
                         /\ m_encoderValue' = Nibble(trace'[n - 2].in)
    ]_vars

\* Baseline 0, then 15 and back to 0: not increased, then increased, and the
\* stored position is 0 again.
C20_Witness ==
  /\ tracing
  /\ Positions(trace) = <<0, 15, 0>>
  /\ Directions(trace) = <<FALSE, TRUE>>
  /\ m_encoderValue = 0

====
